---- MODULE Spec2Model ----
(***************************************************************************)
(* A model of rustkill: the size aggregator, the parallelism policy, the   *)
(* batch collector (list_directory), the progress-reporting scan, the      *)
(* interactive search and the delete handling of the scan UI.              *)
(*                                                                         *)
(* The file system is a finite tree: a function from paths to metadata.    *)
(* A path is a sequence of names, a name is a sequence of characters.      *)
(***************************************************************************)
EXTENDS Integers, Sequences, FiniteSets, TLC

VARIABLES
    tree,       \* the directory tree: path -> [is_dir, len, listable, meta_ok, readonly]
    pol,        \* should_use_parallel: its inputs and its result
    aggPc,      \* calculate_dir_size: "idle", "running", "done"
    aggFrames,  \* inner_calculate_dynamic: the invocations in flight, by path
    aggTotal,   \* calculate_dir_size: the total returned
    list,       \* list_directory: [pc, files, idx, entries]
    col,        \* calculate_dir_size_parallel: the invocations in flight, by path
    rerun,      \* the caller of list_directory: [no, prev], the run and the entries of the run before
    scan,       \* scan_directory_with_progress: [pc, stack, result]
    statusCh,   \* the status channel: [queue, rx_alive, sent]
    search,     \* search_directory_recursive: [pc, pattern, stack, reads, failed]
    resultCh,   \* the channel of results (FileEntry): [queue, rx_alive, sent]
    ui,         \* run_scan_ui: [pc, current_status, entries, selected, target, removals]
    gone,       \* the paths remove_dir_all has removed
    prog,       \* the progress of one loop over files: [total_files, processed_files, progress, last]
    fmt         \* human_readable_size: [k, e, out, done], the input being k * 1024^e bytes

aggVars == <<aggPc, aggFrames, aggTotal>>

listVars == <<list, col, rerun>>

scanVars == <<scan, statusCh>>

searchVars == <<search, resultCh>>

uiVars == <<ui, gone>>

calcVars == <<prog, fmt>>

vars == <<tree, pol, aggVars, listVars, scanVars, searchVars, uiVars, calcVars>>

(***************************************************************************)
(* Bounds of the model.                                                    *)
(***************************************************************************)
MaxFileSize == 1
MaxPolDepth == 12
MaxPolDirs == 10
MaxRuns == 2
MaxEntries == 2
MaxStatusEvents == 2
MaxSelected == 3
MaxRemoveCalls == 3
MaxTotal == 50
MaxSmallSize == 1100
MaxExp == 5

(***************************************************************************)
(* Names and paths.                                                        *)
(***************************************************************************)
NodeModules == <<"n", "o", "d", "e", "_", "m", "o", "d", "u", "l", "e", "s">>

Root == <<>>

Name(p) == p[Len(p)]

ParentOf(p) == SubSeq(p, 1, Len(p) - 1)

\* path.join(name)
Join(p, name) == Append(p, name)

\* str::contains: pat occurs in s as a contiguous substring
Contains(s, pat) ==
    \E i \in 0..(Len(s) - Len(pat)) : SubSeq(s, i + 1, i + Len(pat)) = pat

\* str::starts_with(char)
StartsWith(s, c) == Len(s) > 0 /\ s[1] = c

(***************************************************************************)
(* The file system.                                                        *)
(***************************************************************************)
DirMeta(l) ==
    [is_dir |-> TRUE, len |-> l, listable |-> TRUE, meta_ok |-> TRUE, readonly |-> FALSE]

FileMeta(s) ==
    [is_dir |-> FALSE, len |-> s, listable |-> FALSE, meta_ok |-> TRUE, readonly |-> FALSE]

\* the tree holding the <<path, metadata>> pairs of S
MkTree(S) == [p \in {e[1] : e \in S} |-> (CHOOSE e \in S : e[1] = p)[2]]

\* the tree t without the subtree at p
Prune(t, p) ==
    [q \in {r \in DOMAIN t : ~(Len(r) >= Len(p) /\ SubSeq(r, 1, Len(p)) = p)} |-> t[q]]

\* the tree t where listing p fails
Unlistable(t, p) == [t EXCEPT ![p].listable = FALSE]

\* the tree t where reading the metadata of p fails
NoMeta(t, p) == [t EXCEPT ![p].meta_ok = FALSE]

Children(p) ==
    {q \in DOMAIN tree : Len(q) = Len(p) + 1 /\ SubSeq(q, 1, Len(p)) = p}

\* fs::read_dir(p).is_ok()
ReadDirOk(p) == p \in DOMAIN tree /\ tree[p].is_dir /\ tree[p].listable

\* entry.metadata().is_ok()
MetadataOk(q) == tree[q].meta_ok

\* no invocation in flight
NoFrames == [r \in {} |-> 0]

RECURSIVE SetSum(_, _)
SetSum(f, S) ==
    IF S = {} THEN 0
    ELSE LET x == CHOOSE y \in S : TRUE IN f[x] + SetSum(f, S \ {x})

(***************************************************************************)
(* ParallelismPolicy: should_use_parallel.  items maps each collected item *)
(* to its metadata.                                                        *)
(***************************************************************************)
DepthCutoff == 10
DirCountCutoff == 8
ItemCountCutoff == 100
DeepDepth == 5
DeepDirCount == 4
ShallowDepth == 3
MidDepth == 6
MidDirCount == 2

should_use_parallel_off_by_one(items, depth) ==
    LET dir_count == Cardinality({i \in DOMAIN items : items[i].is_dir})
    IN  IF depth >= DepthCutoff THEN FALSE
        ELSE IF dir_count >= DirCountCutoff THEN TRUE
        ELSE IF Cardinality(DOMAIN items) >= ItemCountCutoff THEN TRUE
        ELSE IF depth >= DeepDepth THEN dir_count >= DeepDirCount
        ELSE depth < ShallowDepth \/ (depth < MidDepth /\ dir_count > MidDirCount)

should_use_parallel(items, depth) ==
    LET dir_count == Cardinality({i \in DOMAIN items : items[i].is_dir})
    IN  IF depth > DepthCutoff THEN FALSE
        ELSE IF dir_count > DirCountCutoff THEN TRUE
        ELSE IF Cardinality(DOMAIN items) > ItemCountCutoff THEN TRUE
        ELSE IF depth > DeepDepth THEN dir_count > DeepDirCount
        ELSE depth < ShallowDepth \/ (depth < MidDepth /\ dir_count > MidDirCount)

\* a slice of dirs directories followed by files regular files
PolItems(dirs, files) ==
    [i \in 1..(dirs + files) |-> IF i <= dirs THEN DirMeta(0) ELSE FileMeta(0)]

\* the numbers of regular files tried: few, and around the item-count cutoff
PolFileCounts ==
    (0..2) \cup ((ItemCountCutoff - MaxPolDirs - 1)..(ItemCountCutoff + 1))

NoPol == [depth |-> 0, items |-> <<>>, decided |-> FALSE, result |-> FALSE]

PolicyInit ==
    \E d \in 0..MaxPolDepth, n \in 0..MaxPolDirs, f \in PolFileCounts :
        pol = [depth |-> d, items |-> PolItems(n, f), decided |-> FALSE, result |-> FALSE]

PolicyDecide ==
    /\ ~pol.decided
    /\ pol' = [pol EXCEPT !.decided = TRUE,
                          !.result = should_use_parallel(pol.items, pol.depth)]
    /\ UNCHANGED <<tree, calcVars, aggVars, listVars, scanVars, searchVars, uiVars>>

(***************************************************************************)
(* SizeAggregator.                                                         *)
(***************************************************************************)
\* inner_calculate_serial: a sequential recursion, so a function of the tree
RECURSIVE inner_calculate_serial(_)
inner_calculate_serial(path) ==
    IF ReadDirOk(path)
    THEN LET ok == {q \in Children(path) : MetadataOk(q)}
             size == [q \in ok |->
                        IF tree[q].is_dir THEN inner_calculate_serial(q)
                        ELSE tree[q].len]
         IN  SetSum(size, ok)
    ELSE 0

\* the items inner_calculate_dynamic collects: the entries whose metadata reads
DynItems_keeps_unreadable(path) == Children(path)

DynItems(path) == {q \in Children(path) : MetadataOk(q)}

\* a new invocation of inner_calculate_dynamic on a listable directory
DynFrame(path, depth) ==
    [depth    |-> depth,
     parallel |-> should_use_parallel([q \in DynItems(path) |-> tree[q]], depth),
     pending  |-> DynItems(path),
     active   |-> {},
     total    |-> 0]

\* what a regular file adds to the total of the invocation f
DynFileSize_par_drops_files(f, q) == IF f.parallel THEN 0 ELSE tree[q].len

DynFileSize(f, q) == tree[q].len

\* calculate_dir_size(path, _, _, parallel = true) calls inner_calculate_dynamic(path, 0)
AggStart ==
    /\ aggPc = "idle"
    /\ IF ReadDirOk(Root)
       THEN /\ aggFrames' = (Root :> DynFrame(Root, 0))
            /\ aggPc' = "running"
            /\ aggTotal' = 0
       ELSE /\ aggFrames' = aggFrames
            /\ aggPc' = "done"
            /\ aggTotal' = 0
    /\ UNCHANGED <<tree, calcVars, pol, listVars, scanVars, searchVars, uiVars>>

\* one item of the invocation on p is taken up: any pending item of a parallel
\* invocation; the next item, once the previous one has returned, of a serial one
AggItem(p, q) ==
    /\ aggPc = "running"
    /\ p \in DOMAIN aggFrames
    /\ q \in aggFrames[p].pending
    /\ aggFrames[p].parallel \/ aggFrames[p].active = {}
    /\ LET f == aggFrames[p] IN
       IF ~tree[q].is_dir
       THEN aggFrames' = [aggFrames EXCEPT
                ![p].pending = @ \ {q},
                ![p].total = @ + DynFileSize(f, q)]
       ELSE IF ReadDirOk(q)
       THEN aggFrames' = [aggFrames EXCEPT
                ![p].pending = @ \ {q},
                ![p].active = @ \cup {q}] @@ (q :> DynFrame(q, f.depth + 1))
       ELSE aggFrames' = [aggFrames EXCEPT ![p].pending = @ \ {q}]
    /\ UNCHANGED <<tree, calcVars, pol, aggPc, aggTotal, listVars, scanVars, searchVars, uiVars>>

\* the invocation on q has handled all its items and returns its total
AggReturn(q) ==
    /\ aggPc = "running"
    /\ q \in DOMAIN aggFrames
    /\ aggFrames[q].pending = {}
    /\ aggFrames[q].active = {}
    /\ IF q = Root
       THEN /\ aggTotal' = aggFrames[q].total
            /\ aggPc' = "done"
            /\ aggFrames' = NoFrames
       ELSE /\ aggFrames' = [r \in DOMAIN aggFrames \ {q} |->
                IF r = ParentOf(q)
                THEN [aggFrames[r] EXCEPT !.total = @ + aggFrames[q].total,
                                          !.active = @ \ {q}]
                ELSE aggFrames[r]]
            /\ UNCHANGED <<aggPc, aggTotal>>
    /\ UNCHANGED <<tree, calcVars, pol, listVars, scanVars, searchVars, uiVars>>

AggIdle == aggPc = "idle" /\ aggFrames = NoFrames /\ aggTotal = 0

\* the total inner_calculate_dynamic(path, depth) returns: the sum of its items,
\* over the parallel iterator or in the serial loop
RECURSIVE DynTotal(_, _)
DynTotal(path, depth) ==
    IF ReadDirOk(path)
    THEN LET f == DynFrame(path, depth)
             size == [q \in f.pending |->
                        IF tree[q].is_dir THEN DynTotal(q, depth + 1)
                        ELSE DynFileSize(f, q)]
         IN  IF f.parallel THEN SetSum(size, f.pending) ELSE SetSum(size, f.pending)
    ELSE 0

(***************************************************************************)
(* human_readable_size.  The f64 divisions by 1024 are exact, so the size  *)
(* is the fraction bytes / den; "{:.1}" rounds it to one decimal, ties to  *)
(* even.  Exact for the byte counts of this model (below 2^27).            *)
(***************************************************************************)
Kilo == 1024

Units == <<"B", "KB", "MB", "GB", "TB">>

RECURSIVE Pow(_, _)
Pow(b, n) == IF n = 0 THEN 1 ELSE b * Pow(b, n - 1)

\* the while loop: <<den, unit>> with size = bytes / den when it ends
RECURSIVE ScaleLoop_strictly_greater(_, _, _)
ScaleLoop_strictly_greater(bytes, den, unit) ==
    IF bytes \div den > Kilo /\ unit < Len(Units) - 1
    THEN ScaleLoop_strictly_greater(bytes, den * Kilo, unit + 1)
    ELSE <<den, unit>>

RECURSIVE ScaleLoop(_, _, _)
ScaleLoop(bytes, den, unit) ==
    IF bytes \div den >= Kilo /\ unit < Len(Units) - 1
    THEN ScaleLoop(bytes, den * Kilo, unit + 1)
    ELSE <<den, unit>>

\* format!("{:.1}", num / den)
FormatOneDecimal(num, den) ==
    LET whole == num \div den
        rest == num % den
        tenth == (rest * 10) \div den
        left == (rest * 10) % den
        up == 2 * left > den \/ (2 * left = den /\ tenth % 2 = 1)
        tenths == whole * 10 + tenth + (IF up THEN 1 ELSE 0)
    IN  ToString(tenths \div 10) \o "." \o ToString(tenths % 10)

\* human_readable_size of k * 1024^e bytes, k > 0 or e = 0.  Each of the first
\* min(e, 4) rounds of the loop finds size >= 1024 and divides a factor 1024
\* away; the loop goes on from there.
human_readable_scaled(k, e) ==
    LET rounds == IF e < Len(Units) - 1 THEN e ELSE Len(Units) - 1
        left == k * Pow(Kilo, e - rounds)
        scaled == ScaleLoop(left, 1, rounds)
    IN  IF k = 0 THEN "0B"
        ELSE FormatOneDecimal(left, scaled[1]) \o Units[scaled[2] + 1]

human_readable_size(bytes) == human_readable_scaled(bytes, 0)

\* calculate_dir_size: <<total, converted>>
calculate_dir_size(path, human_readable, parallel) ==
    LET total == IF parallel THEN DynTotal(path, 0) ELSE inner_calculate_serial(path)
    IN  <<total, IF human_readable THEN human_readable_size(total) ELSE ToString(total)>>

(***************************************************************************)
(* Matcher/Collector: list_directory and calculate_dir_size_parallel.      *)
(***************************************************************************)
\* the code of a character, for the characters of the model's names
CharCode(c) ==
    CASE c = "." -> 46
      [] c = "2" -> 50
      [] c = "_" -> 95
      [] c = "a" -> 97
      [] c = "b" -> 98
      [] c = "c" -> 99
      [] c = "d" -> 100
      [] c = "e" -> 101
      [] c = "f" -> 102
      [] c = "g" -> 103
      [] c = "l" -> 108
      [] c = "m" -> 109
      [] c = "n" -> 110
      [] c = "o" -> 111
      [] c = "r" -> 114
      [] c = "s" -> 115
      [] c = "t" -> 116
      [] c = "u" -> 117
      [] c = "x" -> 120

\* String's ordering: s < t, byte by byte
RECURSIVE StrLess(_, _)
StrLess(s, t) ==
    IF t = <<>> THEN FALSE
    ELSE IF s = <<>> THEN TRUE
    ELSE IF s[1] # t[1] THEN CharCode(s[1]) < CharCode(t[1])
    ELSE StrLess(Tail(s), Tail(t))

\* files.sort()
RECURSIVE SortNames(_)
SortNames(S) ==
    IF S = {} THEN <<>>
    ELSE LET least == CHOOSE x \in S : \A y \in S \ {x} : StrLess(x, y)
         IN  <<least>> \o SortNames(S \ {least})

\* the orders in which read_dir may enumerate the entries S
Orders(S) ==
    {o \in [1..Cardinality(S) -> S] : \A i, j \in 1..Cardinality(S) : o[i] = o[j] => i = j}

Range(o) == {o[i] : i \in DOMAIN o}

\* the absolute path of the scan root
AbsRoot == <<(<<"/", "w">>)>>

\* Path::canonicalize of a path that exists: the absolute path
Canonicalize(p) ==
    IF Len(p) >= Len(AbsRoot) /\ SubSeq(p, 1, Len(AbsRoot)) = AbsRoot THEN p
    ELSE AbsRoot \o p

\* get_canonical_path: the canonical path, a leading \\?\ stripped (there is none)
get_canonical_path(p) == Canonicalize(p)

FileEntry(file_type, permissions, size_display, size_raw, path) ==
    [file_type |-> file_type, permissions |-> permissions,
     size_display |-> size_display, size_raw |-> size_raw, path |-> path]

\* format!("{}-{}-{}", if readonly "r" else " ", "w", "x")
Permissions(meta) == (IF meta.readonly THEN "r" ELSE " ") \o "-w-x"

\* the name list_directory and scan_directory_with_progress search for
TargetName == NodeModules

Target == <<"t", "a", "r", "g", "e", "t">>

\* Cli::dirs_to_delete, the names the caller configures (here the default)
dirs_to_delete == {Target, NodeModules}

\* sub_name.contains(name)
IsMatch_exact_name(file, name) == file = name

IsMatch(file, name) == Contains(file, name)

\* the size list_directory gives the entry of a matched child of the root
ListEntrySize(file_path) == tree[file_path].len

\* the directories calculate_dir_size_parallel goes on with: not dot-prefixed,
\* metadata readable, a directory
dirs_to_process_keeps_hidden(file_path) ==
    {q \in Children(file_path) : MetadataOk(q) /\ tree[q].is_dir}

dirs_to_process(file_path) ==
    {q \in Children(file_path) :
        ~StartsWith(Name(q), ".") /\ MetadataOk(q) /\ tree[q].is_dir}

\* a new invocation of calculate_dir_size_parallel whose read_dir gave order
ColFrame(order) ==
    [order   |-> order,
     pending |-> Range(order),
     waiting |-> {},
     results |-> [q \in Range(order) |-> <<>>]]

\* the merge loop stopping one result short
RECURSIVE ExtendAll_skips_last(_, _, _)
ExtendAll_skips_last(entries, order, results) ==
    IF Len(order) <= 1 THEN entries
    ELSE ExtendAll_skips_last(entries \o results[Head(order)], Tail(order), results)

\* for result in results { entries.extend(result) }
RECURSIVE ExtendAll(_, _, _)
ExtendAll(entries, order, results) ==
    IF order = <<>> THEN entries
    ELSE ExtendAll(entries \o results[Head(order)], Tail(order), results)

\* the entry calculate_dir_size_parallel makes of the matched directory sub_path
ColEntry(sub_path) ==
    LET size == calculate_dir_size(sub_path, TRUE, TRUE)
    IN  FileEntry("d", "rwx", size[2], size[1], get_canonical_path(sub_path))

NoList == [pc |-> "idle", files |-> <<>>, idx |-> 1, entries |-> <<>>]

NoRerun == [no |-> 1, prev |-> <<>>]

ListIdle == list = NoList /\ col = NoFrames /\ rerun = NoRerun

\* list_directory(path = the root): read_dir and the sort of the names
ListStart ==
    /\ list.pc = "idle"
    /\ IF ReadDirOk(Root)
       THEN list' = [pc |-> "loop",
                     files |-> SortNames({Name(q) : q \in Children(Root)}),
                     idx |-> 1, entries |-> <<>>]
       ELSE list' = [NoList EXCEPT !.pc = "done"]
    /\ UNCHANGED <<tree, calcVars, pol, aggVars, scanVars, col, rerun, searchVars, uiVars>>

\* one iteration of the loop over files; a call of calculate_dir_size_parallel
\* on a non-matching directory is entered here and returns in ColReturn
ListStep ==
    /\ list.pc = "loop"
    /\ col = NoFrames
    /\ list.idx <= Len(list.files)
    /\ LET file == list.files[list.idx]
           file_path == Join(Root, file)
       IN  IF ~MetadataOk(file_path) \/ ~tree[file_path].is_dir
           THEN /\ list' = [list EXCEPT !.idx = @ + 1]
                /\ col' = col
           ELSE IF ~IsMatch(file, TargetName)
           THEN /\ list' = [list EXCEPT !.idx = @ + 1]
                /\ IF ReadDirOk(file_path)
                   THEN \E order \in Orders(dirs_to_process(file_path)) :
                            col' = (file_path :> ColFrame(order))
                   ELSE col' = col
           ELSE /\ list' = [list EXCEPT
                        !.idx = @ + 1,
                        !.entries = Append(@,
                            FileEntry(IF tree[file_path].is_dir THEN "d" ELSE "-",
                                      Permissions(tree[file_path]),
                                      human_readable_size(ListEntrySize(file_path)),
                                      ListEntrySize(file_path),
                                      get_canonical_path(Canonicalize(file_path))))]
                /\ col' = col
    /\ UNCHANGED <<tree, calcVars, pol, aggVars, scanVars, rerun, searchVars, uiVars>>

\* the invocation frame once the task of q found that q cannot be listed: the
\* task returns with no entries, the other tasks are left as they were
SkipUnreadable_aborts(frame, q) == [frame EXCEPT !.pending = {}]

SkipUnreadable(frame, q) == [frame EXCEPT !.pending = @ \ {q}]

\* one task of the parallel iterator of the invocation on p: the directory q
ColTask(p, q) ==
    /\ p \in DOMAIN col
    /\ q \in col[p].pending
    /\ IF IsMatch(Name(q), TargetName)
       THEN col' = [col EXCEPT ![p].pending = @ \ {q},
                               ![p].results[q] = <<ColEntry(q)>>]
       ELSE IF ReadDirOk(q)
       THEN \E order \in Orders(dirs_to_process(q)) :
                col' = [col EXCEPT ![p].pending = @ \ {q},
                                   ![p].waiting = @ \cup {q}] @@ (q :> ColFrame(order))
       ELSE col' = [col EXCEPT ![p] = SkipUnreadable(@, q)]
    /\ UNCHANGED <<tree, calcVars, pol, aggVars, scanVars, list, rerun, searchVars, uiVars>>

\* the invocation on q has collected the results of all its tasks and returns
ColReturn(q) ==
    /\ q \in DOMAIN col
    /\ col[q].pending = {}
    /\ col[q].waiting = {}
    /\ LET out == ExtendAll(<<>>, col[q].order, col[q].results) IN
       IF ParentOf(q) \in DOMAIN col
       THEN /\ col' = [r \in DOMAIN col \ {q} |->
                IF r = ParentOf(q)
                THEN [col[r] EXCEPT !.results[q] = out, !.waiting = @ \ {q}]
                ELSE col[r]]
            /\ list' = list
       ELSE /\ col' = NoFrames
            /\ list' = [list EXCEPT !.entries = ExtendAll(@, col[q].order, col[q].results)]
    /\ UNCHANGED <<tree, calcVars, pol, aggVars, scanVars, rerun, searchVars, uiVars>>

\* the loop is over: list_directory returns entries
ListFinish ==
    /\ list.pc = "loop"
    /\ col = NoFrames
    /\ list.idx > Len(list.files)
    /\ list' = [list EXCEPT !.pc = "done"]
    /\ UNCHANGED <<tree, calcVars, pol, aggVars, scanVars, col, rerun, searchVars, uiVars>>

\* the caller keeps the entries and runs list_directory again on the same tree
ListRerun ==
    /\ list.pc = "done"
    /\ rerun.no < MaxRuns
    /\ rerun' = [no |-> rerun.no + 1, prev |-> list.entries]
    /\ list' = NoList
    /\ UNCHANGED <<tree, calcVars, pol, aggVars, scanVars, col, searchVars, uiVars>>

(***************************************************************************)
(* The status channel (std::sync::mpsc::channel, unbounded) and            *)
(* scan_directory_with_progress, a sequential recursion kept as a stack of *)
(* invocations.  sent is the history of the events handed to send.         *)
(***************************************************************************)
Scanning(current_path, progress) ==
    [kind |-> "Scanning", current_path |-> current_path, progress |-> progress]

Completed(total_files, total_size) ==
    [kind |-> "Completed", total_files |-> total_files, total_size |-> total_size]

NewChannel == [queue |-> <<>>, rx_alive |-> TRUE, sent |-> <<>>]

\* Sender::send returns at once: Ok with the event queued, or Err once the
\* receiver is dropped; `let _ =` discards the result
SendReturns_unwrap_panics(ch) == ch.rx_alive

SendReturns(ch) == TRUE

\* the channel after status_tx.send(ev)
Send(ch, ev) ==
    IF ch.rx_alive
    THEN [ch EXCEPT !.queue = Append(@, ev), !.sent = Append(@, ev)]
    ELSE [ch EXCEPT !.sent = Append(@, ev)]

\* (processed as f64 / total as f64 * 100.0) as u16: the floor of
\* processed * 100 / total, but for the pairs whose f64 product falls just
\* short of the next integer (all such pairs with total <= 200)
FloatShort ==
    {<<29, 50>>, <<29, 100>>, <<57, 100>>, <<58, 100>>, <<87, 150>>,
     <<58, 200>>, <<114, 200>>, <<116, 200>>}

Progress(processed_files, total_files) ==
    (processed_files * 100) \div total_files
        - (IF <<processed_files, total_files>> \in FloatShort THEN 1 ELSE 0)

RECURSIVE SizeSum(_)
SizeSum(entries) ==
    IF entries = <<>> THEN 0 ELSE Head(entries).size_raw + SizeSum(Tail(entries))

ScanFrame(path) ==
    [path |-> path, pc |-> "enter", files |-> <<>>, processed |-> 0, entries |-> <<>>]

NoScan == [pc |-> "idle", stack |-> <<>>, result |-> <<>>]

ScanIdle == scan = NoScan /\ statusCh = NewChannel

Top(stack) == stack[Len(stack)]

\* the scan after the innermost invocation returns ret to its caller
ScanReturnTo(ret) ==
    LET rest == SubSeq(scan.stack, 1, Len(scan.stack) - 1) IN
    IF rest = <<>>
    THEN [pc |-> "done", stack |-> <<>>, result |-> ret]
    ELSE [scan EXCEPT !.stack =
            [rest EXCEPT ![Len(rest)].entries = @ \o ret]]

\* the entry scan_directory_with_progress makes of a regular file
ScanEntry(file_path) ==
    FileEntry(IF tree[file_path].is_dir THEN "d" ELSE "-",
              Permissions(tree[file_path]),
              human_readable_size(tree[file_path].len),
              tree[file_path].len,
              get_canonical_path(Canonicalize(file_path)))

\* scan_directory_with_ui spawns the scan of the root
ScanStart ==
    /\ scan.pc = "idle"
    /\ scan' = [pc |-> "running", stack |-> <<ScanFrame(Root)>>, result |-> <<>>]
    /\ UNCHANGED <<tree, calcVars, pol, aggVars, listVars, statusCh, searchVars, uiVars>>

\* an invocation begins: the initial status, read_dir, the sort of the names
ScanEnter ==
    /\ scan.pc = "running"
    /\ Top(scan.stack).pc = "enter"
    /\ SendReturns(statusCh)
    /\ LET path == Top(scan.stack).path IN
       /\ statusCh' = Send(statusCh, Scanning(path, 0))
       /\ IF ReadDirOk(path)
          THEN scan' = [scan EXCEPT !.stack[Len(scan.stack)] =
                    [@ EXCEPT !.pc = "loop",
                              !.files = SortNames({Name(q) : q \in Children(path)})]]
          ELSE scan' = ScanReturnTo(<<>>)
    /\ UNCHANGED <<tree, calcVars, pol, aggVars, listVars, searchVars, uiVars>>

\* one iteration of the loop over files
ScanIterate ==
    /\ scan.pc = "running"
    /\ Top(scan.stack).pc = "loop"
    /\ Top(scan.stack).processed < Len(Top(scan.stack).files)
    /\ SendReturns(statusCh)
    /\ LET f == Top(scan.stack)
           n == Len(scan.stack)
           processed_files == f.processed + 1
           file == f.files[processed_files]
           file_path == Join(f.path, file)
       IN  /\ statusCh' = Send(statusCh,
                    Scanning(file_path, Progress(processed_files, Len(f.files))))
           /\ IF ~MetadataOk(file_path)
              THEN scan' = [scan EXCEPT !.stack[n].processed = processed_files]
              ELSE IF tree[file_path].is_dir
              THEN IF ~IsMatch(file, TargetName)
                   THEN scan' = [scan EXCEPT !.stack =
                            Append([@ EXCEPT ![n].processed = processed_files],
                                   ScanFrame(file_path))]
                   ELSE scan' = [scan EXCEPT !.stack[n].processed = processed_files]
              ELSE scan' = [scan EXCEPT
                        !.stack[n].processed = processed_files,
                        !.stack[n].entries = Append(@, ScanEntry(file_path))]
    /\ UNCHANGED <<tree, calcVars, pol, aggVars, listVars, searchVars, uiVars>>

\* the loop is over: the Completed status, and entries returned
ScanFinish ==
    /\ scan.pc = "running"
    /\ Top(scan.stack).pc = "loop"
    /\ Top(scan.stack).processed = Len(Top(scan.stack).files)
    /\ SendReturns(statusCh)
    /\ LET entries == Top(scan.stack).entries IN
       /\ statusCh' = Send(statusCh,
                Completed(Len(entries), human_readable_size(SizeSum(entries))))
       /\ scan' = ScanReturnTo(entries)
    /\ UNCHANGED <<tree, calcVars, pol, aggVars, listVars, searchVars, uiVars>>

\* the consumer takes one status off the channel (try_recv)
StatusRecv ==
    /\ statusCh.rx_alive
    /\ statusCh.queue # <<>>
    /\ statusCh' = [statusCh EXCEPT !.queue = Tail(@)]
    /\ UNCHANGED <<tree, calcVars, pol, aggVars, listVars, scan, searchVars, uiVars>>

\* the consumer quits: run_scan_ui returns and status_rx is dropped
DropReceiver ==
    /\ statusCh.rx_alive
    /\ statusCh' = [statusCh EXCEPT !.rx_alive = FALSE, !.queue = <<>>]
    /\ UNCHANGED <<tree, calcVars, pol, aggVars, listVars, scan, searchVars, uiVars>>

\* what scan_directory_with_progress(path) returns: the loop over the sorted
\* names from the i-th on, and the whole invocation
RECURSIVE ScanLoopFrom(_, _, _)
ScanReturn(path) ==
    IF ReadDirOk(path)
    THEN ScanLoopFrom(path, SortNames({Name(q) : q \in Children(path)}), 1)
    ELSE <<>>

ScanLoopFrom(path, files, i) ==
    IF i > Len(files) THEN <<>>
    ELSE LET file_path == Join(path, files[i])
             here == IF ~MetadataOk(file_path) THEN <<>>
                     ELSE IF tree[file_path].is_dir
                     THEN IF ~IsMatch(files[i], TargetName) THEN ScanReturn(file_path)
                          ELSE <<>>
                     ELSE <<ScanEntry(file_path)>>
         IN  here \o ScanLoopFrom(path, files, i + 1)

(***************************************************************************)
(* search_directory_interactive and search_directory_recursive: a          *)
(* sequential recursion kept as a stack of invocations, sending each match *)
(* on a channel.  reads counts the read_dir calls; failed tells that a     *)
(* send returned Err.                                                      *)
(***************************************************************************)
SearchFrame(path) == [path |-> path, pc |-> "enter", pending |-> {}]

NoSearch(pattern) ==
    [pc |-> "idle", pattern |-> pattern, stack |-> <<>>, reads |-> 0, failed |-> FALSE]

SearchIdle == search = NoSearch(<<>>) /\ resultCh = NewChannel

\* the search after the innermost invocation returns
SearchPop(sr) ==
    LET rest == SubSeq(sr.stack, 1, Len(sr.stack) - 1) IN
    [sr EXCEPT !.stack = rest, !.pc = IF rest = <<>> THEN "done" ELSE @]

\* what follows a send that returned Err: `return` leaves the innermost
\* invocation only
AfterFailedSend(sr) == SearchPop([sr EXCEPT !.failed = TRUE])

\* the entry search_directory_recursive makes of a match
SearchEntry(file_path) ==
    FileEntry(IF tree[file_path].is_dir THEN "d" ELSE "-",
              Permissions(tree[file_path]),
              human_readable_size(tree[file_path].len),
              tree[file_path].len,
              get_canonical_path(Canonicalize(file_path)))

\* search_directory_interactive spawns the search of the root
SearchStart ==
    /\ search.pc = "idle"
    /\ search' = [search EXCEPT !.pc = "running", !.stack = <<SearchFrame(Root)>>]
    /\ UNCHANGED <<tree, calcVars, pol, aggVars, listVars, scanVars, resultCh, uiVars>>

\* an invocation begins with read_dir
SearchEnter ==
    /\ search.pc = "running"
    /\ Top(search.stack).pc = "enter"
    /\ LET path == Top(search.stack).path
           counted == [search EXCEPT !.reads = @ + 1]
       IN  IF ReadDirOk(path)
           THEN search' = [counted EXCEPT !.stack[Len(search.stack)] =
                    [@ EXCEPT !.pc = "loop", !.pending = Children(path)]]
           ELSE search' = SearchPop(counted)
    /\ UNCHANGED <<tree, calcVars, pol, aggVars, listVars, scanVars, resultCh, uiVars>>

\* one iteration of the loop over the entries, in the order read_dir gives
SearchIterate(q) ==
    /\ search.pc = "running"
    /\ Top(search.stack).pc = "loop"
    /\ q \in Top(search.stack).pending
    /\ LET n == Len(search.stack)
           taken == [search EXCEPT !.stack[n].pending = @ \ {q}]
           matches == Contains(Name(q), search.pattern)
       IN  IF matches /\ ~MetadataOk(q)
           THEN /\ search' = taken
                /\ resultCh' = resultCh
           ELSE /\ resultCh' = IF matches THEN Send(resultCh, SearchEntry(q)) ELSE resultCh
                /\ IF matches /\ ~resultCh.rx_alive
                   THEN search' = AfterFailedSend(taken)
                   ELSE IF MetadataOk(q) /\ tree[q].is_dir
                   THEN search' = [taken EXCEPT !.stack = Append(@, SearchFrame(q))]
                   ELSE search' = taken
    /\ UNCHANGED <<tree, calcVars, pol, aggVars, listVars, scanVars, uiVars>>

\* the loop is over: the invocation returns
SearchReturn ==
    /\ search.pc = "running"
    /\ Top(search.stack).pc = "loop"
    /\ Top(search.stack).pending = {}
    /\ search' = SearchPop(search)
    /\ UNCHANGED <<tree, calcVars, pol, aggVars, listVars, scanVars, resultCh, uiVars>>

\* the consumer takes one result off the channel
ResultRecv ==
    /\ resultCh.rx_alive
    /\ resultCh.queue # <<>>
    /\ resultCh' = [resultCh EXCEPT !.queue = Tail(@)]
    /\ UNCHANGED <<tree, calcVars, pol, aggVars, listVars, scanVars, search, uiVars>>

\* the consumer drops the Receiver search_directory_interactive returned
DropResults ==
    /\ resultCh.rx_alive
    /\ resultCh' = [resultCh EXCEPT !.rx_alive = FALSE, !.queue = <<>>]
    /\ UNCHANGED <<tree, calcVars, pol, aggVars, listVars, scanVars, search, uiVars>>

\* the patterns searched for
SearchPatterns == {<<"f">>, NodeModules}

(***************************************************************************)
(* The progress values of the loop over the files of one directory, and    *)
(* human_readable_size applied to one size, each on inputs of its own.     *)
(***************************************************************************)
NoProg == [total_files |-> 0, processed_files |-> 0, progress |-> 0, last |-> 0]

NoFmt == [k |-> 0, e |-> 0, out |-> "", done |-> FALSE]

CalcIdle == prog = NoProg /\ fmt = NoFmt

\* one iteration of the loop over files, up to the send of Scanning
ProgressStep ==
    /\ prog.processed_files < prog.total_files
    /\ prog' = [prog EXCEPT
                    !.processed_files = @ + 1,
                    !.progress = Progress(prog.processed_files + 1, prog.total_files),
                    !.last = prog.progress]
    /\ UNCHANGED <<tree, pol, fmt, aggVars, listVars, scanVars, searchVars, uiVars>>

\* the sizes tried: the small ones, sizes around the unit boundaries and the
\* rounding ties
SizeSamples ==
    (0..MaxSmallSize) \cup {1280, 1535, 1536, 1537, 1792, 2047, 2048, 10240, 1048575, 1048576, 1048577, 1572864}

\* k * 1024^e is a u64: below 2^64, that is k * 1024^(e - 4) below 2^24
FitsU64(k, e) == IF e < 4 THEN TRUE ELSE k < 16777216 \div Pow(Kilo, e - 4)

FormatSize ==
    /\ ~fmt.done
    /\ fmt' = [fmt EXCEPT !.out = human_readable_scaled(fmt.k, fmt.e), !.done = TRUE]
    /\ UNCHANGED <<tree, pol, prog, aggVars, listVars, scanVars, searchVars, uiVars>>

(***************************************************************************)
(* run_scan_ui: the consumer loop, the list selection and the delete key.  *)
(* selected is the index ListState holds (0-based), None when it holds     *)
(* none.  The removal runs inside the handler of the space key: pc is      *)
(* "removing" while remove_dir_all runs.  removals counts the calls of     *)
(* remove_dir_all.                                                         *)
(***************************************************************************)
None == -1

UsizeMax == 2147483647

NoUi ==
    [pc |-> "loop", current_status |-> "Scanning", entries |-> <<>>, selected |-> 0,
     target |-> 0, removals |-> 0]

UiIdle == ui = NoUi /\ gone = {}

\* the k-th entry the scanning thread sends on the result channel
EmittedEntry(k) ==
    [file_type |-> "d", permissions |-> "rwx",
     size_display |-> human_readable_size(k), size_raw |-> k,
     path |-> AbsRoot \o (IF k = 1 THEN <<NodeModules>> ELSE <<<<"a", ToString(k)>>, NodeModules>>),
     delete_status |-> "NotDeleted"]

\* ListState::select_next
select_next(selected) == IF selected = None THEN 0 ELSE selected + 1

\* ListState::select_previous
select_previous(selected) ==
    IF selected = None THEN UsizeMax ELSE IF selected = 0 THEN 0 ELSE selected - 1

\* render_scan_ui: the List widget is rendered when the status is Completed and
\* puts the selection in range; nothing else of the state changes
render_scan_ui(u) ==
    IF u.current_status # "Completed" THEN u
    ELSE IF u.entries = <<>> THEN [u EXCEPT !.selected = None]
    ELSE IF u.selected # None /\ u.selected >= Len(u.entries)
    THEN [u EXCEPT !.selected = Len(u.entries) - 1]
    ELSE u

\* the scanning thread sends a status
UiEnvStatus(kind) ==
    /\ Len(statusCh.sent) < MaxStatusEvents
    /\ statusCh' = Send(statusCh,
            IF kind = "Completed" THEN Completed(Len(resultCh.sent), "0B")
            ELSE Scanning(Root, 0))
    /\ UNCHANGED <<tree, calcVars, pol, aggVars, listVars, scan, searchVars, uiVars>>

\* the scanning thread sends an entry it found
UiEnvEntry ==
    /\ Len(resultCh.sent) < MaxEntries
    /\ resultCh' = Send(resultCh, EmittedEntry(Len(resultCh.sent) + 1))
    /\ UNCHANGED <<tree, calcVars, pol, aggVars, listVars, scanVars, search, uiVars>>

\* while let Ok(entry) = entries_rx.try_recv() { entries.push(entry) }
PushEntries_resets(entries, queue) ==
    [i \in DOMAIN entries |-> [entries[i] EXCEPT !.delete_status = "NotDeleted"]] \o queue

PushEntries(entries, queue) == entries \o queue

\* the top of the loop: one status taken if there is one, the entries drained
UiPoll ==
    /\ ui.pc = "loop"
    /\ statusCh.queue # <<>> \/ resultCh.queue # <<>>
    /\ LET got == statusCh.queue # <<>>
           status == IF got THEN Head(statusCh.queue).kind ELSE ui.current_status
           taken == [ui EXCEPT !.current_status = status]
           drawn == IF got /\ ui.current_status = "Scanning" /\ status = "Completed"
                    THEN render_scan_ui(taken) ELSE taken
       IN  /\ statusCh' = [statusCh EXCEPT !.queue = IF got THEN Tail(@) ELSE @]
           /\ resultCh' = [resultCh EXCEPT !.queue = <<>>]
           /\ ui' = LET filled == [drawn EXCEPT !.entries = PushEntries(@, resultCh.queue)]
                     IN  IF resultCh.queue # <<>> /\ filled.current_status = "Scanning"
                         THEN render_scan_ui(filled) ELSE filled
    /\ UNCHANGED <<tree, calcVars, pol, aggVars, listVars, scan, search, gone>>

\* j or Down
UiDownKey ==
    /\ ui.pc = "loop"
    /\ ui.selected < MaxSelected
    /\ IF ui.entries # <<>>
       THEN ui' = render_scan_ui([ui EXCEPT !.selected = select_next(@)])
       ELSE ui' = ui
    /\ UNCHANGED <<tree, calcVars, pol, aggVars, listVars, scanVars, searchVars, gone>>

\* k or Up; entries[selected] is read for the log and panics out of range
UiUpKey ==
    /\ ui.pc = "loop"
    /\ IF ui.entries # <<>>
       THEN LET moved == [ui EXCEPT !.selected = select_previous(@)] IN
            IF moved.selected >= Len(ui.entries)
            THEN ui' = [moved EXCEPT !.pc = "panicked"]
            ELSE ui' = render_scan_ui(moved)
       ELSE ui' = ui
    /\ UNCHANGED <<tree, calcVars, pol, aggVars, listVars, scanVars, searchVars, gone>>

\* whether the space key starts a removal of an entry of this status
SpaceStartsRemoval_unless_deleting(delete_status) == delete_status # "Deleting"

SpaceStartsRemoval(delete_status) == delete_status = "NotDeleted"

\* what the space key makes of an entry that is Deleting or Deleted
SpaceOnDeleted_restores(entry) ==
    IF entry.delete_status = "Deleted" THEN [entry EXCEPT !.delete_status = "NotDeleted"]
    ELSE entry

SpaceOnDeleted(entry) ==
    IF entry.delete_status = "Deleting" THEN [entry EXCEPT !.delete_status = "Deleting"]
    ELSE entry

\* entry.delete_status = Deleting, entry being &mut entries[selected]
StartRemoval_marks_all(entries, i) ==
    [j \in DOMAIN entries |->
        IF entries[j].delete_status = "NotDeleted"
        THEN [entries[j] EXCEPT !.delete_status = "Deleting"] ELSE entries[j]]

StartRemoval(entries, i) == [entries EXCEPT ![i].delete_status = "Deleting"]

\* the space key, up to the call of remove_dir_all
UiSpaceKey ==
    /\ ui.pc = "loop"
    /\ IF ui.selected # None /\ ui.selected < Len(ui.entries)
       THEN LET i == ui.selected + 1
                entry == ui.entries[i]
            IN  IF SpaceStartsRemoval(entry.delete_status)
                THEN /\ ui.removals < MaxRemoveCalls
                     /\ ui' = [ui EXCEPT !.entries = StartRemoval(@, i),
                                         !.pc = "removing",
                                         !.target = i,
                                         !.removals = @ + 1]
                ELSE ui' = IF entry.delete_status = "Deleted"
                           THEN render_scan_ui([ui EXCEPT !.entries[i] = SpaceOnDeleted(entry)])
                           ELSE [ui EXCEPT !.entries[i] = SpaceOnDeleted(entry)]
       ELSE ui' = ui
    /\ UNCHANGED <<tree, calcVars, pol, aggVars, listVars, scanVars, searchVars, gone>>

\* the status the handler gives the entry when remove_dir_all has returned
RemovalStatus_stuck_deleting(ok) == IF ok THEN "Deleted" ELSE "Deleting"

RemovalStatus_success_unmarked(ok) == IF ok THEN "Deleting" ELSE "NotDeleted"

RemovalStatus(ok) == IF ok THEN "Deleted" ELSE "NotDeleted"

\* remove_dir_all returns, Ok or Err (always Err on a path already removed),
\* and the handler of the space key ends
UiRemoveDone(ok) ==
    /\ ui.pc = "removing"
    /\ LET i == ui.target
           path == ui.entries[i].path
       IN  /\ ok => path \notin gone
           /\ gone' = IF ok THEN gone \cup {path} ELSE gone
           /\ ui' = render_scan_ui([ui EXCEPT
                        !.entries[i].delete_status = RemovalStatus(ok),
                        !.pc = "loop",
                        !.target = 0])
    /\ UNCHANGED <<tree, calcVars, pol, aggVars, listVars, scanVars, searchVars>>

\* q or Esc: the loop breaks and run_scan_ui returns; both receivers are dropped
UiQuitKey ==
    /\ ui.pc = "loop"
    /\ ui' = [ui EXCEPT !.pc = "quit"]
    /\ statusCh' = [statusCh EXCEPT !.rx_alive = FALSE, !.queue = <<>>]
    /\ resultCh' = [resultCh EXCEPT !.rx_alive = FALSE, !.queue = <<>>]
    /\ UNCHANGED <<tree, calcVars, pol, aggVars, listVars, scan, search, gone>>

(***************************************************************************)
(* The trees the aggregation is run on: a chain deep enough for the policy *)
(* to choose the serial loop (depth 3), two sibling directories at the top *)
(* for the parallel tasks to interleave, files of drawn sizes, and at most *)
(* one unreadable place.                                                   *)
(***************************************************************************)
nA == <<"a">>
nB == <<"b">>
nC == <<"c">>
nD == <<"d">>
nE == <<"e">>
nF == <<"f">>
nX == <<"x">>

AggFull(s1, s2, s3) ==
    MkTree({ <<Root, DirMeta(0)>>,
             <<(<<nF>>), FileMeta(s1)>>,
             <<(<<nX>>), DirMeta(0)>>,
             <<(<<nX, nF>>), FileMeta(s2)>>,
             <<(<<nA>>), DirMeta(0)>>,
             <<(<<nA, nF>>), FileMeta(1)>>,
             <<(<<nA, nB>>), DirMeta(0)>>,
             <<(<<nA, nB, nC>>), DirMeta(0)>>,
             <<(<<nA, nB, nC, nF>>), FileMeta(1)>>,
             <<(<<nA, nB, nC, nD>>), DirMeta(0)>>,
             <<(<<nA, nB, nC, nD, nF>>), FileMeta(s3)>>,
             <<(<<nA, nB, nC, nE>>), DirMeta(0)>> })

\* the places one of which may be unreadable
AggFaults == {<<nF>>, <<nX>>, <<nA>>, <<nA, nB>>, <<nA, nB, nC>>, <<nA, nB, nC, nD>>,
              <<nA, nB, nC, nD, nF>>}

WithFault(t, p) ==
    IF p = Root \/ p \notin DOMAIN t THEN t
    ELSE IF t[p].is_dir THEN Unlistable(t, p) ELSE NoMeta(t, p)

\* the tree t where the directory p has vanished: neither its metadata nor
\* its listing can be read
Vanished(t, p) == NoMeta(Unlistable(t, p), p)

AggTrees ==
    { WithFault(Prune(AggFull(s1, s2, s3), cut), bad) :
        s1 \in 0..MaxFileSize, s2 \in 0..MaxFileSize, s3 \in 0..MaxFileSize,
        cut \in {<<nE>>, <<nA, nB, nC, nE>>, <<nX>>},
        bad \in AggFaults \cup {Root} }
    \cup { Vanished(AggFull(1, 1, 1), p) : p \in {<<nX>>, <<nA, nB>>, <<nA, nB, nC, nD>>} }
    \cup { Unlistable(AggFull(1, 1, 1), Root) }

(***************************************************************************)
(* The trees the collector is run on: the scenario of the specification    *)
(* (a/node_modules, b/src, node_modules), and around it a matched          *)
(* directory inside a matched one, a name that only contains the target,   *)
(* dot-prefixed directories at the root and below it, one of them with a   *)
(* matching name, a directory named target, and at most one unreadable     *)
(* place.                                                                  *)
(***************************************************************************)
nG == <<".", "g">>
nSrc == <<"s", "r", "c">>
nNM == NodeModules
nNM2 == NodeModules \o <<"2">>
nDotNM == <<".">> \o NodeModules

ListFull(l, s1, s2) ==
    MkTree({ <<Root, DirMeta(0)>>,
             <<(<<nF>>), FileMeta(1)>>,
             <<(<<nNM>>), DirMeta(l)>>,
             <<(<<nNM, nF>>), FileMeta(s1)>>,
             <<(<<nG>>), DirMeta(0)>>,
             <<(<<nG, nNM>>), DirMeta(0)>>,
             <<(<<nG, nNM, nF>>), FileMeta(1)>>,
             <<(<<nA>>), DirMeta(0)>>,
             <<(<<nA, nNM>>), DirMeta(0)>>,
             <<(<<nA, nNM, nF>>), FileMeta(s2)>>,
             <<(<<nA, nNM, nNM>>), DirMeta(0)>>,
             <<(<<nA, nNM, nNM, nF>>), FileMeta(1)>>,
             <<(<<nA, nC>>), DirMeta(0)>>,
             <<(<<nA, nC, nNM>>), DirMeta(0)>>,
             <<(<<nA, nC, nNM, nF>>), FileMeta(1)>>,
             <<(<<nA, nG>>), DirMeta(0)>>,
             <<(<<nA, nG, nNM>>), DirMeta(0)>>,
             <<(<<nA, nG, nNM, nF>>), FileMeta(1)>>,
             <<(<<nA, nDotNM>>), DirMeta(0)>>,
             <<(<<nA, nDotNM, nF>>), FileMeta(1)>>,
             <<(<<Target>>), DirMeta(0)>>,
             <<(<<Target, nF>>), FileMeta(1)>>,
             <<(<<nB>>), DirMeta(0)>>,
             <<(<<nB, nSrc>>), DirMeta(0)>>,
             <<(<<nB, nSrc, nF>>), FileMeta(1)>>,
             <<(<<nB, nNM2>>), DirMeta(0)>>,
             <<(<<nB, nNM2, nF>>), FileMeta(1)>>,
             <<(<<nB, nNM2, nNM>>), DirMeta(0)>>,
             <<(<<nB, nNM2, nNM, nF>>), FileMeta(1)>> })

RECURSIVE PruneAll(_, _)
PruneAll(t, cuts) ==
    IF cuts = {} THEN t
    ELSE LET p == CHOOSE x \in cuts : TRUE IN PruneAll(Prune(t, p), cuts \ {p})

\* what is left of the full tree in the scenario of the specification
ScenarioCuts ==
    {<<nF>>, <<nG>>, <<nA, nC>>, <<nA, nG>>, <<nB, nNM2>>, <<nA, nNM, nNM>>,
     <<nA, nDotNM>>, <<Target>>}

ListCuts == {{}, {<<nG>>}, {<<nA, nC>>}, {<<nB>>}, ScenarioCuts}

ListFaults == {<<nA>>, <<nA, nC>>, <<nB, nNM2>>, <<nA, nNM, nF>>}

ListTrees ==
    { WithFault(PruneAll(ListFull(l, s1, s2), cuts), bad) :
        l \in 0..MaxFileSize, s1 \in 0..MaxFileSize, s2 \in 0..MaxFileSize,
        cuts \in ListCuts, bad \in ListFaults \cup {Root} }

\* the trees the scan is run on: files and directories at the root and below,
\* a matched and a dot-prefixed directory, a root or a directory that cannot
\* be listed, a file whose metadata cannot be read
ScanFull(s1, s2) ==
    MkTree({ <<Root, DirMeta(0)>>,
             <<(<<nF>>), FileMeta(s1)>>,
             <<(<<nNM>>), DirMeta(0)>>,
             <<(<<nNM, nF>>), FileMeta(1)>>,
             <<(<<nG>>), DirMeta(0)>>,
             <<(<<nG, nF>>), FileMeta(1)>>,
             <<(<<nA>>), DirMeta(0)>>,
             <<(<<nA, nF>>), FileMeta(s2)>>,
             <<(<<nA, nNM>>), DirMeta(0)>>,
             <<(<<nA, nNM, nF>>), FileMeta(1)>>,
             <<(<<nA, nB>>), DirMeta(0)>>,
             <<(<<nA, nB, nF>>), FileMeta(1)>> })

ScanCuts == {{}, {<<nG>>}, {<<nA, nB>>, <<nG>>}, {<<nA>>, <<nG>>, <<nNM>>}}

ScanFaults == {<<nA>>, <<nA, nB>>, <<nA, nF>>}

ScanTrees ==
    { WithFault(PruneAll(ScanFull(s1, s2), cuts), bad) :
        s1 \in 0..MaxFileSize, s2 \in 0..MaxFileSize,
        cuts \in ScanCuts, bad \in ScanFaults \cup {Root} }
        \cup {Unlistable(ScanFull(1, 1), Root)}

InitAgg ==
    /\ tree \in AggTrees
    /\ pol = NoPol
    /\ AggIdle
    /\ ListIdle
    /\ ScanIdle
    /\ SearchIdle
    /\ UiIdle
    /\ CalcIdle

NextAgg ==
    \/ AggStart
    \/ \E p \in DOMAIN aggFrames : \E q \in aggFrames[p].pending : AggItem(p, q)
    \/ \E q \in DOMAIN aggFrames : AggReturn(q)

SpecAgg == InitAgg /\ [][NextAgg]_vars

InitPolicy ==
    /\ tree = MkTree({<<Root, DirMeta(0)>>})
    /\ PolicyInit
    /\ AggIdle
    /\ ListIdle
    /\ ScanIdle
    /\ SearchIdle
    /\ UiIdle
    /\ CalcIdle

NextPolicy == PolicyDecide

SpecPolicy == InitPolicy /\ [][NextPolicy]_vars

InitList ==
    /\ tree \in ListTrees
    /\ pol = NoPol
    /\ AggIdle
    /\ ListIdle
    /\ ScanIdle
    /\ SearchIdle
    /\ UiIdle
    /\ CalcIdle

NextList ==
    \/ ListStart
    \/ ListStep
    \/ \E p \in DOMAIN col : \E q \in col[p].pending : ColTask(p, q)
    \/ \E q \in DOMAIN col : ColReturn(q)
    \/ ListFinish
    \/ ListRerun

SpecList == InitList /\ [][NextList]_vars

InitScan ==
    /\ tree \in ScanTrees
    /\ pol = NoPol
    /\ AggIdle
    /\ ListIdle
    /\ ScanIdle
    /\ SearchIdle
    /\ UiIdle
    /\ CalcIdle

\* the steps of the scanning thread
ScannerNext == ScanStart \/ ScanEnter \/ ScanIterate \/ ScanFinish

NextScan ==
    \/ ScanStart
    \/ ScanEnter
    \/ ScanIterate
    \/ ScanFinish
    \/ StatusRecv
    \/ DropReceiver

\* the scanning thread runs on whatever the consumer does
SpecScan == InitScan /\ [][NextScan]_vars /\ WF_vars(ScannerNext)

InitSearch ==
    /\ tree \in ScanTrees
    /\ pol = NoPol
    /\ AggIdle
    /\ ListIdle
    /\ ScanIdle
    /\ \E pattern \in SearchPatterns : search = NoSearch(pattern)
    /\ resultCh = NewChannel
    /\ UiIdle
    /\ CalcIdle

NextSearch ==
    \/ SearchStart
    \/ SearchEnter
    \/ \E q \in DOMAIN tree : SearchIterate(q)
    \/ SearchReturn
    \/ ResultRecv
    \/ DropResults

SpecSearch == InitSearch /\ [][NextSearch]_vars

InitUi ==
    /\ tree = MkTree({<<Root, DirMeta(0)>>})
    /\ pol = NoPol
    /\ AggIdle
    /\ ListIdle
    /\ ScanIdle
    /\ SearchIdle
    /\ UiIdle
    /\ CalcIdle

NextUi ==
    \/ \E kind \in {"Scanning", "Completed"} : UiEnvStatus(kind)
    \/ UiEnvEntry
    \/ UiPoll
    \/ UiDownKey
    \/ UiUpKey
    \/ UiSpaceKey
    \/ \E ok \in BOOLEAN : UiRemoveDone(ok)
    \/ UiQuitKey

SpecUi == InitUi /\ [][NextUi]_vars

\* scan_directory_with_ui: the scanning thread sends on the status channel
\* while run_scan_ui polls it
InitSession ==
    /\ tree \in ScanTrees
    /\ pol = NoPol
    /\ AggIdle
    /\ ListIdle
    /\ ScanIdle
    /\ SearchIdle
    /\ UiIdle
    /\ CalcIdle

NextSession ==
    \/ ScanStart
    \/ ScanEnter
    \/ ScanIterate
    \/ ScanFinish
    \/ UiPoll
    \/ UiQuitKey

SpecSession == InitSession /\ [][NextSession]_vars

InitProgress ==
    /\ tree = MkTree({<<Root, DirMeta(0)>>})
    /\ pol = NoPol
    /\ AggIdle
    /\ ListIdle
    /\ ScanIdle
    /\ SearchIdle
    /\ UiIdle
    /\ fmt = NoFmt
    /\ \E total \in 1..MaxTotal : prog = [NoProg EXCEPT !.total_files = total]

NextProgress == ProgressStep

SpecProgress == InitProgress /\ [][NextProgress]_vars

InitSize ==
    /\ tree = MkTree({<<Root, DirMeta(0)>>})
    /\ pol = NoPol
    /\ AggIdle
    /\ ListIdle
    /\ ScanIdle
    /\ SearchIdle
    /\ UiIdle
    /\ prog = NoProg
    /\ \E k \in SizeSamples, e \in 0..MaxExp :
            /\ (IF k = 0 THEN e = 0 ELSE FitsU64(k, e))
            /\ fmt = [NoFmt EXCEPT !.k = k, !.e = e]

NextSize == FormatSize

SpecSize == InitSize /\ [][NextSize]_vars

(***************************************************************************)
(* C1: when the dynamic aggregation started at depth 0 has returned, its   *)
(* total is the total of the serial aggregation of the same tree, whatever *)
(* the order in which the parallel tasks ran.                              *)
(***************************************************************************)
SumInvariant == aggPc = "done" => aggTotal = inner_calculate_serial(Root)

\* a run that is over, in which a directory at depth 3 was summed by the serial
\* loop, the directories above it by parallel tasks, and files were counted
SumWitness ==
    /\ aggPc = "done"
    /\ aggTotal >= 3
    /\ ReadDirOk(<<nA, nB, nC>>)
    /\ ReadDirOk(<<nX>>)
    /\ Cardinality(Children(<<nA, nB, nC>>)) >= 2

(***************************************************************************)
(* C4: the decision is the first matching rule of: depth > 10 -> false;    *)
(* directory_count > 8 -> true; total_items > 100 -> true; depth > 5 ->    *)
(* directory_count > 4; otherwise depth < 3 or (depth < 6 and              *)
(* directory_count > 2).                                                   *)
(***************************************************************************)
PolDirCount == Cardinality({i \in DOMAIN pol.items : pol.items[i].is_dir})

PolTotalItems == Len(pol.items)

PolicyRules ==
    pol.decided =>
        /\ pol.result =
             CASE pol.depth > 10 -> FALSE
               [] pol.depth <= 10 /\ PolDirCount > 8 -> TRUE
               [] pol.depth <= 10 /\ PolDirCount <= 8 /\ PolTotalItems > 100 -> TRUE
               [] pol.depth <= 10 /\ PolDirCount <= 8 /\ PolTotalItems <= 100
                  /\ pol.depth > 5 -> PolDirCount > 4
               [] OTHER -> (pol.depth < 3 \/ (pol.depth < 6 /\ PolDirCount > 2))
        /\ (pol.depth > 10 => pol.result = FALSE)
        /\ (pol.depth = 0 /\ PolDirCount = 9 => pol.result = TRUE)

\* the depth cutoff overriding the volume: depth 11, more than 8 directories,
\* more than 100 items, decided false
PolicyWitness ==
    /\ pol.decided
    /\ pol.result = FALSE
    /\ pol.depth = 11
    /\ PolDirCount > 8
    /\ PolTotalItems > 100

(***************************************************************************)
(* Emitted entries: those list_directory holds and those the invocations   *)
(* of calculate_dir_size_parallel in flight hold.                          *)
(***************************************************************************)
SeqSet(es) == {es[i] : i \in DOMAIN es}

Emitted ==
    SeqSet(list.entries)
        \cup UNION {UNION {SeqSet(col[p].results[q]) : q \in DOMAIN col[p].results} :
                        p \in DOMAIN col}

\* the path below the scan root of the absolute path p
RelPath(p) == SubSeq(p, Len(AbsRoot) + 1, Len(p))

\* r is a directory of the tree whose name contains the target name
MatchedDir(r) ==
    r \in DOMAIN tree /\ r # Root /\ tree[r].is_dir /\ Contains(Name(r), NodeModules)

(***************************************************************************)
(* C2: no emitted entry lies strictly inside a directory whose name        *)
(* matched the target; on the tree of a/node_modules, b/src and            *)
(* node_modules the collector returns exactly a/node_modules and           *)
(* node_modules.                                                           *)
(***************************************************************************)
ScenarioTree == PruneAll(ListFull(0, 1, 1), ScenarioCuts)

NoDescentIntoMatch ==
    /\ \A e \in Emitted :
         \A k \in 1..(Len(RelPath(e.path)) - 1) : ~MatchedDir(SubSeq(RelPath(e.path), 1, k))
    /\ (list.pc = "done" /\ DOMAIN tree = DOMAIN ScenarioTree /\ tree[<<nA>>].listable
        /\ tree[<<nA, nNM, nF>>].meta_ok)
         => /\ Len(list.entries) = 2
            /\ {e.path : e \in SeqSet(list.entries)}
                 = {AbsRoot \o <<nA, nNM>>, AbsRoot \o <<nNM>>}

\* a finished run over a tree with a matched directory inside a matched one and a
\* matched directory inside one whose name only contains the target
NoDescentWitness ==
    /\ list.pc = "done"
    /\ MatchedDir(<<nA, nNM, nNM>>)
    /\ MatchedDir(<<nB, nNM2, nNM>>)
    /\ \E e \in SeqSet(list.entries) : RelPath(e.path) = <<nA, nNM>>
    /\ \E e \in SeqSet(list.entries) : RelPath(e.path) = <<nB, nNM2>>

(***************************************************************************)
(* C3: every entry emitted for a matched directory carries the aggregated  *)
(* size of the matched subtree as size_raw.                                *)
(***************************************************************************)
EntrySizeIsAggregate ==
    \A e \in Emitted : e.size_raw = calculate_dir_size(RelPath(e.path), TRUE, TRUE)[1]

(***************************************************************************)
(* C10: a second run of the collector over the unchanged tree returns the  *)
(* same set of entries, by path and size, as the run before it, whatever   *)
(* the order of the parallel branches and of the directory listings.       *)
(***************************************************************************)
EntrySet(es) == {<<es[i].path, es[i].size_raw>> : i \in DOMAIN es}

SameEntriesOnRerun ==
    (rerun.no > 1 /\ list.pc = "done") => EntrySet(list.entries) = EntrySet(rerun.prev)

\* a second run that returned the entries of the first in another order
RerunWitness ==
    /\ rerun.no > 1
    /\ list.pc = "done"
    /\ Len(list.entries) >= 3
    /\ list.entries # rerun.prev

(***************************************************************************)
(* C5: over a whole scan of a root, exactly one Completed event is sent.   *)
(***************************************************************************)
CompletedSent == {i \in DOMAIN statusCh.sent : statusCh.sent[i].kind = "Completed"}

ExactlyOneCompleted == scan.pc = "done" => Cardinality(CompletedSent) = 1

(***************************************************************************)
(* C9: whether the status receiver is drained, left alone or dropped, the  *)
(* scan never waits on a send, runs to its end, and returns the entries    *)
(* the walk yields when every send succeeds.                               *)
(***************************************************************************)
ProgressNotLoadBearing ==
    /\ <>(scan.pc = "done")
    /\ [](scan.pc = "done" => scan.result = ScanReturn(Root))
    /\ [][statusCh.rx_alive \/ statusCh'.queue = <<>>]_vars

\* a scan that ended with entries although the receiver was dropped while the
\* scan was running and sends failed after that
DroppedReceiverWitness ==
    /\ scan.pc = "done"
    /\ ~statusCh.rx_alive
    /\ Len(scan.result) >= 2
    /\ Len(statusCh.sent) > 6

(***************************************************************************)
(* C8: once a send of the producer has failed because the receiver was     *)
(* dropped, the producer lists no further directory and attempts no        *)
(* further send.                                                           *)
(***************************************************************************)
StopsAfterFailedSend ==
    [][search.failed =>
        /\ search'.reads = search.reads
        /\ Len(resultCh'.sent) = Len(resultCh.sent)]_vars

(***************************************************************************)
(* C6: every change of an entry's delete_status is NotDeleted -> Deleting  *)
(* (the delete key, a removal starts), Deleting -> Deleted (the removal    *)
(* succeeded) or Deleting -> NotDeleted (it failed); the delete key on an  *)
(* entry that is Deleting or Deleted leaves its status as it is; a Deleted *)
(* entry stays Deleted.                                                    *)
(***************************************************************************)
StatusOf(u, i) == u.entries[i].delete_status

Prefix(q, k) == SubSeq(q, 1, k)

ReachableFiles ==
    {q \in DOMAIN tree :
        /\ ~tree[q].is_dir
        /\ \A k \in 0..(Len(q) - 1) : ReadDirOk(Prefix(q, k))
        /\ \A k \in 1..Len(q) : MetadataOk(Prefix(q, k))}

ReachableSum == SetSum([q \in ReachableFiles |-> tree[q].len], ReachableFiles)

AllFiles == {q \in DOMAIN tree : ~tree[q].is_dir}

FailuresContributeZero ==
    /\ inner_calculate_serial(Root) = ReachableSum
    /\ aggPc = "done" => aggTotal = ReachableSum

\* a run that is over on a tree where a failure hides a file of positive size
\* and files of positive size are still counted
FailuresWitness ==
    /\ aggPc = "done"
    /\ aggTotal > 0
    /\ \E q \in AllFiles \ ReachableFiles : tree[q].len > 0
    /\ \E q \in DOMAIN tree : ~MetadataOk(q)

(***************************************************************************)
(* C12: a directory that cannot be read contributes no entries to the      *)
(* matching walk and does not abort it: the walk runs to completion and    *)
(* returns an entry for every directory the walk reaches outside the       *)
(* unreadable subtrees, and for nothing else.  The batch collector emits   *)
(* the matched directories it reaches; scan_directory_with_progress emits  *)
(* what it emits of the directories it reaches (see C13).  Completion: a   *)
(* walk that has not returned can always take a step, and every step       *)
(* lowers WorkLeft, a natural number.                                      *)
(***************************************************************************)
\* the directories of the tree at q and below it
DirsUnder(q) ==
    Cardinality({r \in DOMAIN tree :
        tree[r].is_dir /\ Len(r) >= Len(q) /\ SubSeq(r, 1, Len(q)) = q})

\* the names list_directory has yet to take up
NamesLeft ==
    IF list.pc = "idle" THEN {Name(q) : q \in Children(Root)}
    ELSE {list.files[i] : i \in list.idx..Len(list.files)}

WorkLeft ==
    (CASE list.pc = "idle" -> 2 [] list.pc = "loop" -> 1 [] OTHER -> 0)
    + SetSum([n \in NamesLeft |-> 2 * DirsUnder(<<n>>) + 2], NamesLeft)
    + Cardinality(DOMAIN col)
    + SetSum([p \in DOMAIN col |->
                SetSum([q \in col[p].pending |-> 2 * DirsUnder(q)], col[p].pending)],
             DOMAIN col)

CanStep ==
    \/ list.pc = "idle"
    \/ list.pc = "loop" /\ col = NoFrames
    \/ \E q \in DOMAIN col : col[q].pending # {} \/ col[q].waiting = {}

\* the directories strictly above q and below the root
Above(q) == {Prefix(q, k) : k \in 1..(Len(q) - 1)}

\* the walk of the collector gets to q: everything above q can be listed, has
\* readable metadata and is not itself a match, and below the children of the
\* root nothing on the way is dot-prefixed
CollectorReaches(q) ==
    /\ q \in DOMAIN tree /\ q # Root
    /\ ReadDirOk(Root)
    /\ \A r \in Above(q) : ReadDirOk(r) /\ MetadataOk(r) /\ ~MatchedDir(r)
    /\ \A k \in 2..Len(q) : ~StartsWith(Name(Prefix(q, k)), ".")
    /\ MetadataOk(q)

WalkedMatches == {q \in DOMAIN tree : CollectorReaches(q) /\ MatchedDir(q)}

\* the walk of the scan gets to q
ScanReaches(q) ==
    /\ q \in DOMAIN tree /\ q # Root
    /\ ReadDirOk(Root)
    /\ \A r \in Above(q) : ReadDirOk(r) /\ MetadataOk(r) /\ ~MatchedDir(r)
    /\ MetadataOk(q)

\* the regular files the walk of the scan gets to
ScanWalkedFiles == {q \in DOMAIN tree : ScanReaches(q) /\ ~tree[q].is_dir}

PathsOf(es) == {RelPath(es[i].path) : i \in DOMAIN es}

OnlyMatchedDirsEmitted ==
    scan.pc = "done" =>
        /\ \A q \in PathsOf(scan.result) : tree[q].is_dir /\ MatchedDir(q)
        /\ \A q \in DOMAIN tree :
             (ScanReaches(q) /\ MatchedDir(q)) => q \in PathsOf(scan.result)

(***************************************************************************)
(* C14: below the children of the root a directory whose name starts with  *)
(* '.' is neither explored nor matched, so nothing is emitted for it or    *)
(* from below it; a dot-prefixed child of the root is not excluded: it is  *)
(* explored, and the matches below it are emitted.                         *)
(***************************************************************************)
\* a component of p below the first starts with '.'
HiddenBelowRoot(p) == \E k \in 2..Len(p) : StartsWith(p[k], ".")

HiddenDirsExcluded ==
    /\ \A e \in Emitted : ~HiddenBelowRoot(RelPath(e.path))
    /\ \A p \in DOMAIN col : ~HiddenBelowRoot(p)
    /\ \A p \in DOMAIN col : \A q \in col[p].pending : ~HiddenBelowRoot(q)
    /\ list.pc = "done" =>
         \A q \in WalkedMatches :
            (Len(q) = 2 /\ StartsWith(q[1], ".")) => q \in PathsOf(list.entries)

\* a finished run over a tree with a/.g/node_modules and a/.node_modules, which
\* were left out, and .g/node_modules, which was emitted
HiddenDirsWitness ==
    /\ list.pc = "done"
    /\ MatchedDir(<<nA, nG, nNM>>) /\ ReadDirOk(<<nA>>)
    /\ MatchedDir(<<nA, nDotNM>>)
    /\ <<nG, nNM>> \in PathsOf(list.entries)
    /\ <<nA, nNM>> \in PathsOf(list.entries)

(***************************************************************************)
(* C15: a directory the walk reaches is emitted exactly when its name      *)
(* matches one of the target names the caller configured.                  *)
(***************************************************************************)
MatchesConfigured(q) == \E name \in dirs_to_delete : Contains(Name(q), name)

ConfiguredTargetsMatched ==
    list.pc = "done" =>
        /\ \A q \in PathsOf(list.entries) : MatchesConfigured(q)
        /\ \A q \in Children(Root) :
             (MetadataOk(q) /\ tree[q].is_dir /\ MatchesConfigured(q))
                => q \in PathsOf(list.entries)

(***************************************************************************)
(* C16: Completed is terminal on the status channel: no Scanning event is  *)
(* sent after a Completed event of the same scan.                          *)
(***************************************************************************)
CompletedIsTerminal ==
    \A i, j \in DOMAIN statusCh.sent :
        (i < j /\ statusCh.sent[i].kind = "Completed") => statusCh.sent[j].kind # "Scanning"

(***************************************************************************)
(* C17: every Scanning event sent in the loop over the children of a       *)
(* directory carries progress = processed_items * 100 / total_items,       *)
(* truncated, with 1 <= processed_items <= total_items; the value lies in  *)
(* 0..100, never decreases within the loop and is 100 at its end.          *)
(***************************************************************************)
ProgressIsTruncatedRatio ==
    prog.processed_files >= 1 =>
        /\ prog.processed_files <= prog.total_files
        /\ prog.progress = (prog.processed_files * 100) \div prog.total_files
        /\ prog.progress \in 0..100
        /\ prog.progress >= prog.last
        /\ prog.processed_files = prog.total_files => prog.progress = 100

(***************************************************************************)
(* C20: human_readable_size gives "0B" for 0 and otherwise the value with  *)
(* one decimal in the largest of the units B, KB, MB, GB, TB (powers of    *)
(* 1024) in which it is at least 1, TB being the last: "1023.0B" for 1023, *)
(* "1.0KB" for 1024, "1.0MB" for 1024 * 1024.                              *)
(***************************************************************************)
\* k * 1024^e >= 1024^u
AtLeastUnit(k, e, u) == IF e >= u THEN k >= 1 ELSE k \div Pow(Kilo, u - e) >= 1

LargestUnit(k, e) ==
    CHOOSE u \in 0..4 :
        AtLeastUnit(k, e, u) /\ (u = 4 \/ ~AtLeastUnit(k, e, u + 1))

InUnit(k, e, u) ==
    IF e >= u THEN FormatOneDecimal(k * Pow(Kilo, e - u), 1)
    ELSE FormatOneDecimal(k, Pow(Kilo, u - e))

UnitNames == <<"B", "KB", "MB", "GB", "TB">>

SizeExamples ==
    {<<0, 0, "0B">>, <<1, 0, "1.0B">>, <<1023, 0, "1023.0B">>, <<1024, 0, "1.0KB">>,
     <<1075, 0, "1.0KB">>, <<1076, 0, "1.1KB">>, <<1280, 0, "1.2KB">>, <<1536, 0, "1.5KB">>, <<1792, 0, "1.8KB">>,
     <<1048575, 0, "1024.0KB">>, <<1048576, 0, "1.0MB">>, <<1, 2, "1.0MB">>,
     <<1, 3, "1.0GB">>, <<1, 4, "1.0TB">>, <<1023, 4, "1023.0TB">>,
     <<1, 5, "1024.0TB">>, <<1536, 5, "1572864.0TB">>}

SizeFormat ==
    fmt.done =>
        /\ fmt.k = 0 => fmt.out = "0B"
        /\ fmt.k > 0 =>
            LET u == LargestUnit(fmt.k, fmt.e)
            IN  fmt.out = InUnit(fmt.k, fmt.e, u) \o UnitNames[u + 1]
        /\ \A x \in SizeExamples : (fmt.k = x[1] /\ fmt.e = x[2]) => fmt.out = x[3]

\* a size past the last unit has been formatted, in TB
SizeWitness ==
    /\ fmt.done
    /\ fmt.k = 1 /\ fmt.e = 5
    /\ fmt.out = "1024.0TB"

(***************************************************************************)
(* C18: when the removal of an entry fails, the entry is NotDeleted again  *)
(* once the attempt is over, the handler returns to the loop without a     *)
(* panic, and a delete request on a NotDeleted entry, this one included,   *)
(* starts a removal attempt.                                               *)
(***************************************************************************)
FailedRemovalRetryable ==
    [][/\ (ui.pc = "removing" /\ ui'.pc # "removing" /\ gone' = gone) =>
            /\ StatusOf(ui', ui.target) = "NotDeleted"
            /\ ui'.pc = "loop"
       /\ (/\ UiSpaceKey
           /\ ui.selected # None /\ ui.selected < Len(ui.entries)
           /\ StatusOf(ui, ui.selected + 1) = "NotDeleted") =>
            /\ ui'.pc = "removing"
            /\ ui'.target = ui.selected + 1
            /\ ui'.removals = ui.removals + 1
            /\ StatusOf(ui', ui.selected + 1) = "Deleting"]_vars

\* the only entry is being removed for the second time, the first attempt
\* having failed
RetryWitness ==
    /\ Len(ui.entries) = 1
    /\ ui.pc = "removing"
    /\ ui.removals = 2
    /\ gone = {}

DeletingNeverObservable ==
    /\ [](ui.pc # "removing" =>
            \A i \in DOMAIN ui.entries : StatusOf(ui, i) \in {"NotDeleted", "Deleted"})
    /\ [](ui.pc = "removing" =>
            \A i \in DOMAIN ui.entries : StatusOf(ui, i) = "Deleting" <=> i = ui.target)
    /\ [][(/\ UiSpaceKey
           /\ ui.selected # None /\ ui.selected < Len(ui.entries)) =>
                StatusOf(ui, ui.selected + 1) # "Deleting"]_vars

\* the handler has run twice and is over: one removal succeeded and one
\* failed, and the loop waits for the next key with an entry selected
DeletingOverWitness ==
    /\ ui.pc = "loop"
    /\ ui.removals = 2
    /\ Cardinality(gone) = 1
    /\ Len(ui.entries) = 2
    /\ ui.selected # None /\ ui.selected < Len(ui.entries)
    /\ \E i \in 1..2 : StatusOf(ui, i) = "Deleted" /\ StatusOf(ui, 3 - i) = "NotDeleted"

(***************************************************************************)
(* C23: the delete key acts only when the selected index is below the      *)
(* number of entries, and its handler, the removal included, changes       *)
(* nothing of the list but the delete_status of the selected entry: the    *)
(* other entries, the number of entries and their order stay as they are.  *)
(* With an empty list or a selection out of range nothing changes and no   *)
(* removal is started.                                                     *)
(***************************************************************************)
SelectionInRange == ui.selected # None /\ ui.selected < Len(ui.entries)

DeleteKeyFrame ==
    /\ [](ui.pc = "removing" => SelectionInRange /\ ui.target = ui.selected + 1)
    /\ [][/\ (UiSpaceKey \/ \E ok \in BOOLEAN : UiRemoveDone(ok)) =>
               /\ Len(ui'.entries) = Len(ui.entries)
               /\ \A i \in DOMAIN ui.entries :
                    /\ [ui'.entries[i] EXCEPT !.delete_status = StatusOf(ui, i)]
                            = ui.entries[i]
                    /\ i # ui.selected + 1 => ui'.entries[i] = ui.entries[i]
               /\ gone' \subseteq gone \cup {ui.entries[i].path : i \in {ui.selected + 1} \cap DOMAIN ui.entries}
               /\ ui'.removals > ui.removals => SelectionInRange
          /\ (UiSpaceKey /\ ~SelectionInRange) => UNCHANGED vars]_vars

\* the key has acted on the second of two entries and left the first alone,
\* and the selection has since moved past the end of the list, where the key
\* finds nothing to act on
DeleteKeyWitness ==
    /\ ui.pc = "loop"
    /\ Len(ui.entries) = 2
    /\ StatusOf(ui, 1) = "NotDeleted" /\ StatusOf(ui, 2) = "Deleted"
    /\ ui.removals = 1
    /\ ui.selected >= Len(ui.entries)

(***************************************************************************)
(* C22: once the current status of the consumer loop is Completed it stays *)
(* Completed: no status taken from the channel afterwards sets it back to  *)
(* Scanning.                                                               *)
(***************************************************************************)
CompletedStaysCompleted ==
    [][ui.current_status = "Completed" => ui'.current_status = "Completed"]_vars

====
